---- MODULE Spec2Model ----
(***************************************************************************)
(* Human-vs-AI tic-tac-toe: the LangGraph coordinator/player nodes of      *)
(* tic_tac_toe_human.py (logic thread), the PygameGame object of           *)
(* pygame_ui.py shared with the UI thread, and the board functions of      *)
(* core_functions.py.                                                      *)
(***************************************************************************)
EXTENDS Integers, Sequences, FiniteSets, TLC

\* Side of the board: range(3) and "0 <= i < 3" in core_functions.py.
N == 3

\* How far outside 0..N-1 a coordinate given to the program may lie.
CoordSlack == 1

\* Won sessions after which the user no longer clicks Restart.
MaxWins == 2

\* Under Spec the first N*N - FreePlies moves of a session follow OpeningLine;
\* the last FreePlies cells are chosen freely.
FreePlies == 5

\* Largest value of a score counter in the calls of the score methods.
MaxScore == 3

Idx == 0 .. (N - 1)
Coords == (0 - CoordSlack) .. (N - 1 + CoordSlack)
Cells == Idx \X Idx
Marks == {"X", "O"}
CellValues == {".", "X", "O"}
AllBoards == [Idx -> [Idx -> CellValues]]

\* Python's None.
None == "None"

\* State.board default_factory / PygameGame.__init__ / reset_game.
EmptyBoard == [r \in Idx |-> [c \in Idx |-> "."]]

\* Python list indexing: a negative index counts from the end.
PyIndex(i) == IF i < 0 THEN i + N ELSE i

\* b[i][j] = mark, as an in-place list assignment.
SetCell(b, i, j, mark) == [b EXCEPT ![PyIndex(i)][PyIndex(j)] = mark]

\* [row[:] for row in board]
CopyBoard(b) == [r \in Idx |-> [c \in Idx |-> b[r][c]]]

(***************************************************************************)
(* core_functions.py                                                       *)
(***************************************************************************)

\* valid_move without the lower bound of the chained comparisons.
valid_move_no_lower_bound(b, i, j) ==
    i < N /\ j < N /\ b[PyIndex(i)][PyIndex(j)] = "."

\* valid_move that accepts any cell inside the board.
valid_move_ignores_cell(b, i, j) ==
    0 <= i /\ i < N /\ 0 <= j /\ j < N

valid_move(b, i, j) ==
    0 <= i /\ i < N /\ 0 <= j /\ j < N /\ b[i][j] = "."

\* b[r][0] == b[r][1] == b[r][2] != '.'
RowWin(b, r) == b[r][0] = b[r][1] /\ b[r][1] = b[r][2] /\ b[r][2] # "."

\* b[0][c] == b[1][c] == b[2][c] != '.'
ColWin(b, c) == b[0][c] = b[1][c] /\ b[1][c] = b[2][c] /\ b[2][c] # "."

\* b[0][0] == b[1][1] == b[2][2] != '.'
DiagWin(b) == b[0][0] = b[1][1] /\ b[1][1] = b[2][2] /\ b[2][2] # "."

\* b[0][2] == b[1][1] == b[2][0] != '.'
AntiDiagWin(b) == b[0][2] = b[1][1] /\ b[1][1] = b[2][0] /\ b[2][0] # "."

\* all(cell != '.' for row in b for cell in row)
BoardFull(b) == \A r \in Idx : \A c \in Idx : b[r][c] # "."

\* check_winner that tests the full board before the lines.
check_winner_draw_first(b) ==
    IF BoardFull(b) THEN "DRAW"
    ELSE IF \E r \in Idx : RowWin(b, r)
         THEN b[CHOOSE r \in Idx : RowWin(b, r)][0]
    ELSE IF \E c \in Idx : ColWin(b, c)
         THEN b[0][CHOOSE c \in Idx : ColWin(b, c)]
    ELSE IF DiagWin(b) THEN b[0][0]
    ELSE IF AntiDiagWin(b) THEN b[0][2]
    ELSE None

\* check_winner that reports any full board as a draw when no row or column wins,
\* i.e. without the two diagonal tests.
check_winner_no_diagonals(b) ==
    IF RowWin(b, 0) THEN b[0][0]
    ELSE IF RowWin(b, 1) THEN b[1][0]
    ELSE IF RowWin(b, 2) THEN b[2][0]
    ELSE IF ColWin(b, 0) THEN b[0][0]
    ELSE IF ColWin(b, 1) THEN b[0][1]
    ELSE IF ColWin(b, 2) THEN b[0][2]
    ELSE IF BoardFull(b) THEN "DRAW"
    ELSE None

\* check_winner whose last test is "any cell filled" instead of "all cells filled".
check_winner_any_filled(b) ==
    IF RowWin(b, 0) THEN b[0][0]
    ELSE IF RowWin(b, 1) THEN b[1][0]
    ELSE IF RowWin(b, 2) THEN b[2][0]
    ELSE IF ColWin(b, 0) THEN b[0][0]
    ELSE IF ColWin(b, 1) THEN b[0][1]
    ELSE IF ColWin(b, 2) THEN b[0][2]
    ELSE IF DiagWin(b) THEN b[0][0]
    ELSE IF AntiDiagWin(b) THEN b[0][2]
    ELSE IF \E r \in Idx : \E c \in Idx : b[r][c] # "." THEN "DRAW"
    ELSE None

\* Rows in order, then columns in order, then the two diagonals, then the draw test.
check_winner(b) ==
    IF RowWin(b, 0) THEN b[0][0]
    ELSE IF RowWin(b, 1) THEN b[1][0]
    ELSE IF RowWin(b, 2) THEN b[2][0]
    ELSE IF ColWin(b, 0) THEN b[0][0]
    ELSE IF ColWin(b, 1) THEN b[0][1]
    ELSE IF ColWin(b, 2) THEN b[0][2]
    ELSE IF DiagWin(b) THEN b[0][0]
    ELSE IF AntiDiagWin(b) THEN b[0][2]
    ELSE IF BoardFull(b) THEN "DRAW"
    ELSE None

(***************************************************************************)
(* State                                                                   *)
(***************************************************************************)
VARIABLES
    \* State of tic_tac_toe_human.py (the LangGraph state of the running session)
    board, moves, last_player, invalid_move_count, game_status,
    \* the node the graph runs next, and the logic thread's position
    node, lpc,
    \* module globals of tic_tac_toe_human.py
    continue_running, player_one_model_name,
    \* PygameGame fields
    ui_board, current_player, game_over, ui_game_status, human_turn,
    move_ready, human_move, shutdown_event, restart_event, running,
    model_selection_enabled, score,
    \* the thread inside a "with self.lock:" block of PygameGame
    lock,
    \* the UI thread's position and the cell of the click it is handling
    upc, click,
    \* history: the clicks the click handler has accepted and
    \* wait_for_human_move has not yet returned; the number of moves
    \* coordinator_node has found invalid since the last one it found valid;
    \* whether the last board click the click handler processed was ignored
    accepted, illegal_streak, ignored,
    \* input and outputs of a single call of a board function
    fn_board, fn_call, fn_args, fn_valid, fn_winner,
    \* the dictionary a caller got from get_score (held in a 1-tuple)
    fn_returned

state_vars == <<board, moves, last_player, invalid_move_count, game_status>>
logic_vars == <<node, lpc, continue_running, player_one_model_name>>
gate_vars == <<human_turn, move_ready, human_move, lock>>
event_vars == <<shutdown_event, restart_event, running>>
display_vars == <<ui_board, current_player, game_over, ui_game_status>>
admin_vars == <<model_selection_enabled, score>>
ui_vars == <<display_vars, gate_vars, event_vars, admin_vars>>
ui_thread_vars == <<upc, click>>
history_vars == <<accepted, illegal_streak, ignored>>
fn_vars == <<fn_board, fn_call, fn_args, fn_valid, fn_winner, fn_returned>>
vars == <<state_vars, logic_vars, ui_vars, ui_thread_vars, history_vars, fn_vars>>

\* A coordinate field that holds None.
NoMove == <<>>

\* player_two_model = 'human'
player_two_model == "human"

\* set_model_options(available_models, default="gemini"), get_selected_model()
get_selected_model == "gemini"

\* What the automated player's response parses to: any pair of integers
\* (parse_coord accepts negative numbers).
AIAnswers == Coords \X Coords

\* f"Invalid move ({i}, {j}) by {symbol} after 3 attempts"
InvalidStatus(i, j, symbol) ==
    "Invalid move (" \o ToString(i) \o ", " \o ToString(j) \o ") by "
        \o symbol \o " after 3 attempts"

\* f"WINNER {winner}"
WinnerStatus(winner) == "WINNER " \o winner

\* PygameGame.__init__ followed by start()
InitUI ==
    /\ ui_board = EmptyBoard
    /\ current_player = None
    /\ running = TRUE
    /\ game_over = FALSE
    /\ ui_game_status = ""
    /\ human_turn = FALSE
    /\ move_ready = FALSE
    /\ human_move = NoMove
    /\ lock = None
    /\ shutdown_event = FALSE
    /\ restart_event = FALSE
    /\ model_selection_enabled = TRUE
    /\ score = [AI |-> 0, Human |-> 0]

\* State(): the dataclass defaults
InitState ==
    /\ board = EmptyBoard
    /\ moves = NoMove
    /\ last_player = None
    /\ invalid_move_count = 0
    /\ game_status = None

\* Module level of tic_tac_toe_human.py and its __main__ block, up to the start
\* of the two threads.
InitProgram ==
    /\ InitState
    /\ InitUI
    /\ node = None
    /\ lpc = "loop"
    /\ continue_running = TRUE
    /\ player_one_model_name = None
    /\ upc = "events"
    /\ click = NoMove
    /\ accepted = <<>>
    /\ illegal_streak = 0
    /\ ignored = FALSE

NoCall ==
    /\ fn_board = EmptyBoard
    /\ fn_call = None
    /\ fn_args = NoMove
    /\ fn_valid = FALSE
    /\ fn_winner = None
    /\ fn_returned = <<>>

Init == InitProgram /\ NoCall

(***************************************************************************)
(* pygame_ui.py: the methods the logic thread calls                        *)
(***************************************************************************)

\* update_score counting every other argument for the automated player
update_score_else_AI(s, winner) ==
    IF winner = "Human" THEN [s EXCEPT !.Human = @ + 1]
    ELSE [s EXCEPT !.AI = @ + 1]

\* update_score(winner): the new score
update_score(s, winner) ==
    IF winner = "AI" THEN [s EXCEPT !.AI = @ + 1]
    ELSE IF winner = "Human" THEN [s EXCEPT !.Human = @ + 1]
    ELSE s

\* reset_score(): the new score
reset_score == [AI |-> 0, Human |-> 0]

\* get_score() returning self.score itself
get_score_returns_field == TRUE

\* Whether the dictionary get_score returns is the stored one: self.score.copy()
\* builds a new dictionary.
get_score_shares == FALSE

\* get_score(): the contents of the returned dictionary
get_score(s) == [k \in DOMAIN s |-> s[k]]

\* update_board(board, ...): the board the UI holds afterwards
update_board(b) == CopyBoard(b)

\* update_board storing the list it is given: self.board = board
update_board_stores_argument == TRUE

\* Whether the list the UI holds after update_board is the coordinator's list
\* itself: self.board = [row[:] for row in board] builds new rows in a new list.
update_board_shares == FALSE

(***************************************************************************)
(* tic_tac_toe_human.py: the graph of one session                          *)
(***************************************************************************)

\* run_single_game up to graph.ainvoke(State(), ...): the model is chosen, model
\* selection is disabled and the graph starts at coordinator_node on a fresh State.
RunSingleGame ==
    /\ lpc = "loop"
    /\ continue_running
    /\ player_one_model_name' = get_selected_model
    /\ model_selection_enabled' = FALSE
    /\ board' = EmptyBoard
    /\ moves' = NoMove
    /\ last_player' = None
    /\ invalid_move_count' = 0
    /\ game_status' = None
    /\ node' = "coordinator_node"
    /\ lpc' = "graph"
    /\ illegal_streak' = 0
    /\ UNCHANGED <<continue_running, display_vars, gate_vars, event_vars, score,
                   ui_thread_vars, accepted, ignored, fn_vars>>

\* The counter a retry stores: new_count = state.invalid_move_count + 1
RetryCountStuck(n) == n

RetryCount(n) == n + 1

\* The invalid-move limit of "if new_count >= 3".
InvalidLimit == 3

\* Who is asked after an illegal move by symbol.
RetryPlayerOther(symbol) == IF symbol = "O" THEN "player_two_node" ELSE "player_one_node"

RetryPlayer(symbol) == IF symbol = "O" THEN "player_one_node" ELSE "player_two_node"

\* Who is asked after a legal, non-terminal move by last.
NextPlayerSame(last) == IF last = "O" THEN "player_one_node" ELSE "player_two_node"

NextPlayer(last) == IF last = "O" THEN "player_two_node" ELSE "player_one_node"

\* coordinator_node, first call of a session: last_player is None.
CoordinatorFirst ==
    /\ last_player = None
    /\ invalid_move_count' = 0
    /\ node' = "player_one_node"
    /\ illegal_streak' = 0
    /\ UNCHANGED <<board, moves, last_player, game_status, ui_vars>>

\* coordinator_node, the move is not valid: retry the same player, or end the
\* game at the third attempt (only game_status is updated then).
CoordinatorInvalid ==
    /\ last_player # None
    /\ ~valid_move(board, moves[1], moves[2])
    /\ IF RetryCount(invalid_move_count) >= InvalidLimit
       THEN /\ game_status' = InvalidStatus(moves[1], moves[2], last_player)
            /\ node' = "END"
            /\ UNCHANGED invalid_move_count
       ELSE /\ invalid_move_count' = RetryCount(invalid_move_count)
            /\ node' = RetryPlayer(last_player)
            /\ UNCHANGED game_status
    /\ illegal_streak' = illegal_streak + 1
    /\ UNCHANGED <<board, moves, last_player, ui_vars>>

\* The outcome coordinator_node computes after applying a move.
Outcome(b) == check_winner(b)

\* The winner's name with the two symbols exchanged.
WinnerSwapped(result) == IF result = "O" THEN player_two_model ELSE player_one_model_name

\* winner = player_two_model if result == 'X' else player_one_model_name
Winner(result) == IF result = "X" THEN player_two_model ELSE player_one_model_name

\* Every won session counted for the automated player
ScoreCategoryAlwaysAI(winner) == "AI"

\* 'Human' or 'AI', as passed to pygame_game.update_score
ScoreCategory(winner) == IF winner = "human" THEN "Human" ELSE "AI"

\* coordinator_node, the move is valid: the cell is written in place (the list
\* in state.board is the session's board object, so the write stays whether or
\* not "board" is in the returned update), the result is computed, the score and
\* the UI are updated (update_score, set_model_selection_enabled and
\* update_board, each under its lock), and the graph ends or goes on with the
\* other player.
CoordinatorValid ==
    /\ last_player # None
    /\ valid_move(board, moves[1], moves[2])
    /\ lock = None
    /\ LET b == SetCell(board, moves[1], moves[2], last_player)
           result == Outcome(b)
           ui_status == IF result = "DRAW" THEN "DRAW"
                        ELSE IF result \in Marks THEN WinnerStatus(Winner(result))
                        ELSE None
       IN /\ board' = b
          /\ score' = IF result \in Marks
                      THEN update_score(score, ScoreCategory(Winner(result)))
                      ELSE score
          /\ model_selection_enabled' =
                 IF result \in Marks THEN TRUE ELSE model_selection_enabled
          \* pygame_game.update_board(state.board, state.last_player, game_status)
          /\ ui_board' = update_board(b)
          /\ current_player' = last_player
          /\ game_over' = IF ui_status # None THEN TRUE ELSE game_over
          /\ ui_game_status' = IF ui_status # None THEN ui_status ELSE ui_game_status
          /\ IF result = "DRAW"
             THEN /\ game_status' = "DRAW."
                  /\ node' = "END"
                  /\ UNCHANGED invalid_move_count
             ELSE IF result \in Marks
             THEN /\ game_status' = WinnerStatus(Winner(result))
                  /\ node' = "END"
                  /\ UNCHANGED invalid_move_count
             ELSE /\ invalid_move_count' = 0
                  /\ node' = NextPlayer(last_player)
                  /\ UNCHANGED game_status
    /\ illegal_streak' = 0
    /\ UNCHANGED <<moves, last_player, gate_vars, event_vars>>

coordinator_node ==
    /\ lpc = "graph"
    /\ node = "coordinator_node"
    /\ \/ CoordinatorFirst
       \/ CoordinatorInvalid
       \/ CoordinatorValid
    /\ UNCHANGED <<lpc, continue_running, player_one_model_name,
                   ui_thread_vars, accepted, ignored, fn_vars>>

\* player_one_node: the model answers with a coordinate that parses. The token
\* counters player_one_token and player_two_token are sums that no branch reads;
\* they are left out.
player_one_node(answers) ==
    /\ lpc = "graph"
    /\ node = "player_one_node"
    /\ \E coord \in answers :
          /\ moves' = coord
          /\ last_player' = "O"
          /\ node' = "coordinator_node"
    /\ UNCHANGED <<board, invalid_move_count, game_status, lpc, continue_running,
                   player_one_model_name, ui_vars, ui_thread_vars, history_vars,
                   fn_vars>>

\* player_one_node whose unparsable answer is handled like an illegal move: it
\* is counted and the automated player is asked again, up to the limit.
player_one_node_raises_counted ==
    /\ lpc = "graph"
    /\ node = "player_one_node"
    /\ IF RetryCount(invalid_move_count) >= InvalidLimit
       THEN /\ game_status' = "unparsable move"
            /\ node' = "END"
            /\ UNCHANGED invalid_move_count
       ELSE /\ invalid_move_count' = RetryCount(invalid_move_count)
            /\ UNCHANGED <<game_status, node>>
    /\ UNCHANGED <<board, moves, last_player, lpc, continue_running,
                   player_one_model_name, ui_vars, ui_thread_vars, history_vars,
                   fn_vars>>

\* player_one_node: parse_coord finds no coordinate in the answer, or the call
\* itself fails. The exception leaves graph.ainvoke and is caught in
\* run_async_in_thread: continue_running = False, shutdown_event.set(), break.
player_one_node_raises ==
    /\ lpc = "graph"
    /\ node = "player_one_node"
    /\ continue_running' = FALSE
    /\ shutdown_event' = TRUE
    /\ lpc' = "exited"
    /\ UNCHANGED <<state_vars, node, player_one_model_name, display_vars, gate_vars,
                   restart_event, running, admin_vars, ui_thread_vars, history_vars,
                   fn_vars>>

\* wait_for_human_move, "with self.lock:" of line 317: the logic thread enters
\* the block once no thread is inside one.
wait_for_human_move_lock ==
    /\ lpc = "graph"
    /\ node = "player_two_node"
    /\ lock = None
    /\ lock' = "logic"
    /\ lpc' = "open_locked"
    /\ UNCHANGED <<state_vars, node, continue_running, player_one_model_name,
                   display_vars, human_turn, move_ready, human_move, event_vars,
                   admin_vars, ui_thread_vars, history_vars, fn_vars>>

\* The lock still held when wait_for_human_move goes on to move_ready.wait().
LockAfterOpenHeld == "logic"

\* The holder of the lock when the first block of wait_for_human_move is left.
LockAfterOpen == None

\* wait_for_human_move, first locked block: open the gate, leave the block.
wait_for_human_move_open ==
    /\ lpc = "open_locked"
    /\ human_turn' = TRUE
    /\ move_ready' = FALSE
    /\ human_move' = NoMove
    /\ lock' = LockAfterOpen
    /\ lpc' = "move_ready_wait"
    /\ UNCHANGED <<state_vars, node, continue_running, player_one_model_name,
                   display_vars, event_vars, admin_vars, ui_thread_vars,
                   history_vars, fn_vars>>

\* wait_for_human_move: self.move_ready.wait() returns once the event is set.
wait_for_human_move_wait ==
    /\ lpc = "move_ready_wait"
    /\ move_ready
    /\ lpc' = "take_move"
    /\ UNCHANGED <<state_vars, node, continue_running, player_one_model_name,
                   ui_vars, ui_thread_vars, history_vars, fn_vars>>

\* What wait_for_human_move hands back: move = self.human_move
TakenMove(hm) == hm

\* wait_for_human_move, second locked block, and the rest of player_two_node:
\* the move is taken out of human_move and returned; player_two_node passes it
\* to coordinator_node as the move of 'X' (or raises when it is None).
player_two_node ==
    /\ lpc = "take_move"
    /\ lock = None
    /\ LET coord == TakenMove(human_move)
       IN /\ human_move' = NoMove
          /\ accepted' = IF accepted # <<>> /\ Head(accepted) = coord
                         THEN Tail(accepted) ELSE accepted
          /\ IF coord = NoMove
             THEN /\ continue_running' = FALSE
                  /\ shutdown_event' = TRUE
                  /\ lpc' = "exited"
                  /\ UNCHANGED <<moves, last_player, node>>
             ELSE /\ moves' = coord
                  /\ last_player' = "X"
                  /\ node' = "coordinator_node"
                  /\ lpc' = "graph"
                  /\ UNCHANGED <<continue_running, shutdown_event>>
    /\ UNCHANGED <<board, invalid_move_count, game_status, player_one_model_name,
                   display_vars, human_turn, move_ready, lock, restart_event,
                   running, admin_vars, ui_thread_vars, illegal_streak, ignored,
                   fn_vars>>

(***************************************************************************)
(* tic_tac_toe_human.py: run_async_in_thread                               *)
(***************************************************************************)

\* graph.ainvoke returns at END; "if pygame_game.shutdown_event.is_set(): break"
GameEnded ==
    /\ lpc = "graph"
    /\ node = "END"
    /\ lpc' = IF shutdown_event THEN "exited" ELSE "restart_wait"
    /\ UNCHANGED <<state_vars, node, continue_running, player_one_model_name,
                   ui_vars, ui_thread_vars, history_vars, fn_vars>>

\* pygame_game.restart_event.wait() returns once the event is set.
RestartWait ==
    /\ lpc = "restart_wait"
    /\ restart_event
    /\ lpc' = "restart_check"
    /\ UNCHANGED <<state_vars, node, continue_running, player_one_model_name,
                   ui_vars, ui_thread_vars, history_vars, fn_vars>>

\* "if pygame_game.restart_event.is_set() and continue_running" ... "else: break"
RestartCheck ==
    /\ lpc = "restart_check"
    /\ lpc' = IF restart_event /\ continue_running THEN "reset_game" ELSE "exited"
    /\ UNCHANGED <<state_vars, node, continue_running, player_one_model_name,
                   ui_vars, ui_thread_vars, history_vars, fn_vars>>

\* reset_game that leaves the board and the status of the finished game.
reset_game_keeps_board ==
    /\ lpc = "reset_game"
    /\ current_player' = None
    /\ game_over' = FALSE
    /\ human_turn' = FALSE
    /\ human_move' = NoMove
    /\ restart_event' = FALSE
    /\ model_selection_enabled' = TRUE
    /\ lpc' = "restart_clear"
    /\ UNCHANGED <<state_vars, node, continue_running, player_one_model_name,
                   ui_board, ui_game_status, move_ready, lock, shutdown_event,
                   running, score, ui_thread_vars, history_vars, fn_vars>>

\* reset_game: the locked block, then set_model_selection_enabled(True)
reset_game ==
    /\ lpc = "reset_game"
    /\ lock = None
    /\ ui_board' = EmptyBoard
    /\ current_player' = None
    /\ game_over' = FALSE
    /\ ui_game_status' = ""
    /\ human_turn' = FALSE
    /\ human_move' = NoMove
    /\ restart_event' = FALSE
    /\ model_selection_enabled' = TRUE
    /\ lpc' = "restart_clear"
    /\ UNCHANGED <<state_vars, node, continue_running, player_one_model_name,
                   move_ready, lock, shutdown_event, running, score,
                   ui_thread_vars, history_vars, fn_vars>>

\* pygame_game.restart_event.clear(), then back to "while continue_running"
RestartClear ==
    /\ lpc = "restart_clear"
    /\ restart_event' = FALSE
    /\ lpc' = "loop"
    /\ UNCHANGED <<state_vars, node, continue_running, player_one_model_name,
                   display_vars, gate_vars, shutdown_event, running, admin_vars,
                   ui_thread_vars, history_vars, fn_vars>>

\* "while continue_running" is false: the thread function returns.
LoopExit ==
    /\ lpc = "loop"
    /\ ~continue_running
    /\ lpc' = "exited"
    /\ UNCHANGED <<state_vars, node, continue_running, player_one_model_name,
                   ui_vars, ui_thread_vars, history_vars, fn_vars>>

(***************************************************************************)
(* pygame_ui.py: run_event_loop (UI thread) and the __main__ block after it *)
(***************************************************************************)

\* pygame.QUIT
EventQuit ==
    /\ upc = "events"
    /\ running' = FALSE
    /\ shutdown_event' = TRUE
    /\ upc' = "finally"
    /\ UNCHANGED <<state_vars, logic_vars, display_vars, gate_vars, restart_event,
                   admin_vars, click, history_vars, fn_vars>>

\* MOUSEBUTTONDOWN on the Restart button: the handler reads self.game_over
\* (line 142, no lock) and finds it set.
ClickRestart ==
    /\ upc = "events"
    /\ game_over
    /\ score.AI + score.Human < MaxWins
    /\ upc' = "restart_set"
    /\ UNCHANGED <<state_vars, logic_vars, ui_vars, click, history_vars, fn_vars>>

\* Restart button, after the test of game_over: self.restart_event.set()
ClickRestartSet ==
    /\ upc = "restart_set"
    /\ restart_event' = TRUE
    /\ upc' = "events"
    /\ UNCHANGED <<state_vars, logic_vars, display_vars, gate_vars, shutdown_event,
                   running, admin_vars, click, history_vars, fn_vars>>

\* MOUSEBUTTONDOWN on the Close button while game_over
ClickClose ==
    /\ upc = "events"
    /\ game_over
    /\ restart_event' = FALSE
    /\ running' = FALSE
    /\ shutdown_event' = TRUE
    /\ upc' = "finally"
    /\ UNCHANGED <<state_vars, logic_vars, display_vars, gate_vars, admin_vars,
                   click, history_vars, fn_vars>>

\* Lines of pygame_ui.py inside a "with self.lock:" block of the click handler:
\* the block of the check and the block of the write.
ClickLockedLines == (163 .. 165) \cup (169 .. 172)

\* The line the UI thread is at between two steps of the click handler: the test
\* "if cell_empty and is_human_turn" once it has passed, and move_ready.set();
\* 0 outside the handler.
ClickLine(u) ==
    CASE u = "click_record" -> 167
      [] u = "click_set" -> 173
      [] OTHER -> 0

\* The thread that holds self.lock while the UI thread is at position u (the
\* blocks of the logic thread are each entered and left within one step).
LockHolder(u) == IF ClickLine(u) \in ClickLockedLines THEN "ui" ELSE None

\* The test the click handler makes on what it read under the lock.
ClickAcceptedAnyTurn(cell_empty, is_human_turn) == cell_empty

ClickAcceptedAnyCell(cell_empty, is_human_turn) == is_human_turn

ClickAccepted(cell_empty, is_human_turn) == cell_empty /\ is_human_turn

\* MOUSEBUTTONDOWN on board cell (row, col) while not game_over: first locked
\* block (read cell_empty and is_human_turn) and the test on what was read: the
\* click goes on to be recorded, or the handler is done with it.
ClickCell(cells) ==
    /\ upc = "events"
    /\ ~game_over
    /\ lock = None
    /\ \/ \E row \in Idx, col \in Idx :
             /\ <<row, col>> \in cells
             /\ ClickAccepted(ui_board[row][col] = ".", human_turn)
             /\ click' = <<row, col>>
             /\ upc' = "click_record"
             /\ ignored' = FALSE
       \/ /\ \E row \in Idx, col \in Idx :
                /\ <<row, col>> \in cells
                /\ ~ClickAccepted(ui_board[row][col] = ".", human_turn)
          /\ ignored' = TRUE
          /\ UNCHANGED <<click, upc>>
    /\ UNCHANGED <<state_vars, logic_vars, ui_vars, accepted, illegal_streak,
                   fn_vars>>

\* Whether recording a click closes the gate: self.human_turn = False
GateAfterClickOpen == TRUE

GateAfterClick == FALSE

\* Click handler, second locked block: mark the cell, record the move, close
\* the gate. self.board[row][col] = 'X' writes the list the UI holds, which
\* reaches the coordinator's board only if the two are one list.
ClickRecord ==
    /\ upc = "click_record"
    /\ lock = None
    /\ ui_board' = SetCell(ui_board, click[1], click[2], "X")
    /\ board' = IF update_board_shares
                THEN SetCell(board, click[1], click[2], "X") ELSE board
    /\ human_move' = click
    /\ human_turn' = GateAfterClick
    /\ accepted' = Append(accepted, click)
    /\ upc' = "click_set"
    /\ UNCHANGED <<moves, last_player, invalid_move_count, game_status, logic_vars,
                   current_player, game_over, ui_game_status, move_ready, lock,
                   event_vars, admin_vars, click, illegal_streak, ignored,
                   fn_vars>>

\* Click handler: self.move_ready.set()
ClickSet ==
    /\ upc = "click_set"
    /\ move_ready' = TRUE
    /\ click' = NoMove
    /\ upc' = "events"
    /\ UNCHANGED <<state_vars, logic_vars, display_vars, human_turn, human_move,
                   lock, event_vars, admin_vars, history_vars, fn_vars>>

\* The event loop reaches a "with self.lock:" block (the check or the write of a
\* click, lines 163 and 169; the copies made for drawing, lines 189 and 201)
\* while the logic thread is inside one: the UI thread waits for the lock.
LockWait ==
    /\ upc = "events"
    /\ lock # None
    /\ upc' = "lock_wait"
    /\ UNCHANGED <<state_vars, logic_vars, ui_vars, click, history_vars, fn_vars>>

\* The lock is free again: the UI thread enters its block and goes on.
LockAcquired ==
    /\ upc = "lock_wait"
    /\ lock = None
    /\ upc' = "events"
    /\ UNCHANGED <<state_vars, logic_vars, ui_vars, click, history_vars, fn_vars>>

\* __main__, finally: continue_running = False
MainFinally ==
    /\ upc = "finally"
    /\ continue_running' = FALSE
    /\ upc' = "finally_set"
    /\ UNCHANGED <<state_vars, node, lpc, player_one_model_name, ui_vars, click,
                   history_vars, fn_vars>>

\* __main__, finally: pygame_game.restart_event.set()
MainFinallySet ==
    /\ upc = "finally_set"
    /\ restart_event' = TRUE
    /\ upc' = "join"
    /\ UNCHANGED <<state_vars, logic_vars, display_vars, gate_vars, shutdown_event,
                   running, admin_vars, click, history_vars, fn_vars>>

(***************************************************************************)
(* The environment: what the model answers and where the user clicks       *)
(***************************************************************************)

\* Number of marks on a board.
MarksOn(b) == Cardinality({cell \in Cells : b[cell[1]][cell[2]] # "."})

\* The opening the two players follow under Spec: O and X fill the left of
\* the two upper rows, so that either can complete a row, and a draw, and an
\* abort are still possible.
OpeningLine == << <<0, 0>>, <<1, 0>>, <<0, 1>>, <<1, 1>> >>

OpeningLen ==
    IF N * N - FreePlies > Len(OpeningLine) THEN Len(OpeningLine)
    ELSE IF N * N - FreePlies < 0 THEN 0
    ELSE N * N - FreePlies

\* An answer of the model that names no cell of the board.
OutsideAnswer == <<0 - CoordSlack, N - 1 + CoordSlack>>

\* Answers of the model on board b under Spec: after the opening any cell of the
\* board, empty or not, or OutsideAnswer (SpecGame has every pair of Coords).
OpeningAnswers(b) ==
    IF MarksOn(b) < OpeningLen THEN {OpeningLine[MarksOn(b) + 1]}
    ELSE Cells \cup {OutsideAnswer}

\* Cells the user clicks when the window shows board b under Spec.
OpeningClicks(b) ==
    IF MarksOn(b) < OpeningLen THEN {OpeningLine[MarksOn(b) + 1]} ELSE Cells

\* Cells the user clicks under SpecGame: the cells the window shows empty, while
\* it is the user's turn (a click anywhere else is ignored by the handler and
\* changes no field of the program).
PlayableClicks == {cell \in Cells : human_turn /\ ui_board[cell[1]][cell[2]] = "."}

(***************************************************************************)
(* Specifications                                                          *)
(***************************************************************************)

\* The whole program: both threads, any number of sessions.
Next ==
    \/ RunSingleGame
    \/ coordinator_node
    \/ player_one_node(OpeningAnswers(board))
    \/ player_one_node_raises
    \/ wait_for_human_move_lock
    \/ wait_for_human_move_open
    \/ wait_for_human_move_wait
    \/ player_two_node
    \/ GameEnded
    \/ RestartWait
    \/ RestartCheck
    \/ reset_game
    \/ RestartClear
    \/ LoopExit
    \/ EventQuit
    \/ ClickRestart
    \/ ClickRestartSet
    \/ ClickClose
    \/ ClickCell(OpeningClicks(ui_board))
    \/ ClickRecord
    \/ ClickSet
    \/ LockWait
    \/ LockAcquired
    \/ MainFinally
    \/ MainFinallySet

Spec == Init /\ [][Next]_vars

\* The steps of the logic thread (threading.Thread(target=run_async_in_thread)).
LogicNext ==
    \/ RunSingleGame
    \/ coordinator_node
    \/ player_one_node(OpeningAnswers(board))
    \/ player_one_node_raises
    \/ wait_for_human_move_lock
    \/ wait_for_human_move_open
    \/ wait_for_human_move_wait
    \/ player_two_node
    \/ GameEnded
    \/ RestartWait
    \/ RestartCheck
    \/ reset_game
    \/ RestartClear
    \/ LoopExit

\* The steps the UI thread takes by itself once an event has started them: the
\* rest of the click handler and the finally block of __main__.
UIContinue ==
    \/ ClickRecord
    \/ ClickSet
    \/ ClickRestartSet
    \/ LockAcquired
    \/ MainFinally
    \/ MainFinallySet

\* The whole program with both threads scheduled: a thread that can run does
\* run (the model answers every request; the user owes no event).
SpecLive == Init /\ [][Next]_vars /\ WF_vars(LogicNext) /\ WF_vars(UIContinue)

\* One session with every answer of the model that parses and every click the
\* handler accepts, while the window stays open.
NextGame ==
    \/ RunSingleGame
    \/ coordinator_node
    \/ player_one_node(AIAnswers)
    \/ wait_for_human_move_lock
    \/ wait_for_human_move_open
    \/ wait_for_human_move_wait
    \/ player_two_node
    \/ GameEnded
    \/ ClickCell(PlayableClicks)
    \/ ClickRecord
    \/ ClickSet
    \/ LockWait
    \/ LockAcquired

SpecGame == Init /\ [][NextGame]_vars

\* The steps of the logic thread in one session.
LogicGame ==
    \/ RunSingleGame
    \/ coordinator_node
    \/ player_one_node(AIAnswers)
    \/ wait_for_human_move_lock
    \/ wait_for_human_move_open
    \/ wait_for_human_move_wait
    \/ player_two_node
    \/ GameEnded

\* One session in which both threads are scheduled, the model answers every
\* request with a coordinate that parses, and the human clicks a cell the
\* handler accepts whenever asked.
SpecGameLive ==
    /\ Init
    /\ [][NextGame]_vars
    /\ WF_vars(LogicGame)
    /\ WF_vars(UIContinue)
    /\ WF_vars(ClickCell(PlayableClicks))

\* A single call of a board function on any board over '.', 'X', 'O'.
InitFn ==
    /\ InitProgram
    /\ fn_board \in AllBoards
    /\ fn_call = None
    /\ fn_args = NoMove
    /\ fn_valid = FALSE
    /\ fn_winner = None
    /\ fn_returned = <<>>

\* check_winner(fn_board)
CallCheckWinner ==
    /\ fn_call = None
    /\ fn_call' = "check_winner"
    /\ fn_winner' = check_winner(fn_board)
    /\ UNCHANGED <<state_vars, logic_vars, ui_vars, ui_thread_vars, history_vars,
                   fn_board, fn_args, fn_valid, fn_returned>>

\* valid_move(fn_board, i, j): an expression, the board object is not written.
CallValidMove ==
    /\ fn_call = None
    /\ \E i \in Coords, j \in Coords :
          /\ fn_call' = "valid_move"
          /\ fn_args' = <<i, j>>
          /\ fn_valid' = valid_move(fn_board, i, j)
    /\ UNCHANGED <<state_vars, logic_vars, ui_vars, ui_thread_vars, history_vars,
                   fn_board, fn_winner, fn_returned>>

\* Arguments given to update_score: the two categories, the outcome 'DRAW', the
\* marks and the empty string.
ScoreArguments == {"AI", "Human", "DRAW", "X", "O", ""}

\* game.update_score(w)
CallUpdateScore ==
    /\ score.AI < MaxScore
    /\ score.Human < MaxScore
    /\ \E w \in ScoreArguments :
          /\ fn_call' = "update_score"
          /\ fn_args' = <<w>>
          /\ score' = update_score(score, w)
    /\ UNCHANGED <<state_vars, logic_vars, display_vars, gate_vars, event_vars,
                   model_selection_enabled, ui_thread_vars, history_vars,
                   fn_board, fn_valid, fn_winner, fn_returned>>

\* game.reset_score()
CallResetScore ==
    /\ fn_call' = "reset_score"
    /\ fn_args' = NoMove
    /\ score' = reset_score
    /\ UNCHANGED <<state_vars, logic_vars, display_vars, gate_vars, event_vars,
                   model_selection_enabled, ui_thread_vars, history_vars,
                   fn_board, fn_valid, fn_winner, fn_returned>>

\* d = game.get_score()
CallGetScore ==
    /\ fn_call' = "get_score"
    /\ fn_args' = NoMove
    /\ fn_returned' = <<get_score(score)>>
    /\ UNCHANGED <<state_vars, logic_vars, ui_vars, ui_thread_vars, history_vars,
                   fn_board, fn_valid, fn_winner>>

\* d[k] = v on the dictionary got from get_score
ModifyReturned ==
    /\ fn_returned # <<>>
    /\ \E k \in {"AI", "Human"}, v \in 0 .. MaxScore :
          /\ fn_call' = "modify"
          /\ fn_args' = <<k, v>>
          /\ fn_returned' = <<[fn_returned[1] EXCEPT ![k] = v]>>
    /\ score' = IF get_score_shares THEN fn_returned'[1] ELSE score
    /\ UNCHANGED <<state_vars, logic_vars, display_vars, gate_vars, event_vars,
                   model_selection_enabled, ui_thread_vars, history_vars,
                   fn_board, fn_valid, fn_winner>>

NextScore ==
    \/ CallUpdateScore
    \/ CallResetScore
    \/ CallGetScore
    \/ ModifyReturned

SpecScore == Init /\ [][NextScore]_vars

SpecCheckWinner == InitFn /\ [][CallCheckWinner]_vars

SpecValidMove == InitFn /\ [][CallValidMove]_vars

(***************************************************************************)
(* Vocabulary of the properties                                            *)
(***************************************************************************)

\* The eight lines of the board, each as its three cells.
Lines ==
    {{<<r, c>> : c \in Idx} : r \in Idx}
        \cup {{<<r, c>> : r \in Idx} : c \in Idx}
        \cup {{<<k, k>> : k \in Idx}, {<<k, N - 1 - k>> : k \in Idx}}

\* Line l of board b holds three identical marks.
Completed(b, l) == \E m \in Marks : \A cell \in l : b[cell[1]][cell[2]] = m

CompletedLines(b) == {l \in Lines : Completed(b, l)}

\* The mark on a completed line l.
MarkOn(b, l) == CHOOSE m \in Marks : \A cell \in l : b[cell[1]][cell[2]] = m

HasEmptyCell(b) == \E cell \in Cells : b[cell[1]][cell[2]] = "."

CountOf(b, m) == Cardinality({cell \in Cells : b[cell[1]][cell[2]] = m})

\* A move is legal: its target is on the board and the cell there is empty.
Legal(b, m) == m[1] \in Idx /\ m[2] \in Idx /\ b[m[1]][m[2]] = "."

PlayerNode(p) == IF p = "O" THEN "player_one_node" ELSE "player_two_node"

OtherPlayer(p) == IF p = "O" THEN "X" ELSE "O"

\* coordinator_node is about to validate the move in moves, made by last_player.
Validating == lpc = "graph" /\ node = "coordinator_node" /\ last_player # None

\* The step taken is coordinator_node's (it always names another node).
CoordinatorStep == lpc = "graph" /\ node = "coordinator_node" /\ node' # node

(***************************************************************************)
(* C1                                                                      *)
(***************************************************************************)

\* C1: when coordinator_node finds the move of player p illegal and it is the
\* 1st or 2nd illegal attempt in a row, the same player's node is named next and
\* the session goes on; at the 3rd the graph ends with the invalid-move status.
C1_RetrySamePlayerThenAbort ==
    [][(Validating /\ CoordinatorStep /\ ~Legal(board, moves)) =>
          IF illegal_streak + 1 < 3
          THEN /\ node' = PlayerNode(last_player)
               /\ last_player' = last_player
               /\ game_status' = None
          ELSE /\ node' = "END"
               /\ game_status' = InvalidStatus(moves[1], moves[2], last_player)]_vars

\* C1 witness: the automated player's third illegal attempt in a row has ended the
\* session on a board with marks on it.
C1_Witness ==
    /\ node = "END"
    /\ illegal_streak = 3
    /\ last_player = "O"
    /\ MarksOn(board) >= 2
    /\ game_status = InvalidStatus(moves[1], moves[2], "O")

(***************************************************************************)
(* C2                                                                      *)
(***************************************************************************)

\* C2: invalid_move_count grows by exactly 1 at every illegal attempt, is 0 right
\* after every legal move, whether or not that move ends the game, and the third
\* illegal attempt in a row ends the session as aborted.
C2_CounterFollowsAttempts ==
    [][(Validating /\ CoordinatorStep) =>
          /\ Legal(board, moves) => invalid_move_count' = 0
          /\ ~Legal(board, moves) => invalid_move_count' = invalid_move_count + 1
          /\ (~Legal(board, moves) /\ illegal_streak = 2) =>
                 (node' = "END" /\ game_status' \notin {None, "DRAW."})]_vars

(***************************************************************************)
(* C3                                                                      *)
(***************************************************************************)

\* C3: an illegal attempt changes neither the coordinator's board nor the board
\* the UI holds, and from the first illegal attempt of a row of them to the
\* abort at the third no step changes either board.
C3_IllegalAttemptKeepsBoards ==
    [][/\ (Validating /\ CoordinatorStep /\ ~Legal(board, moves)) =>
              (board' = board /\ ui_board' = ui_board)
       /\ illegal_streak' > 0 => (board' = board /\ ui_board' = ui_board)]_vars

\* C3 witness: three illegal attempts in a row have aborted a session whose board
\* holds marks of both players, and the UI holds the same board.
C3_Witness ==
    /\ node = "END"
    /\ illegal_streak = 3
    /\ CountOf(board, "X") >= 1
    /\ CountOf(board, "O") >= 1
    /\ ui_board = board

(***************************************************************************)
(* C4                                                                      *)
(***************************************************************************)

\* C4: the first node coordinator_node names in a session is player_one_node (O);
\* a legal move is always made by the player whose turn the marks on the board
\* show (O when there are as many O as X, X otherwise) and puts that player's
\* mark; and after a legal move that neither completes a line nor fills the
\* board, the other player's node is named.
C4_TurnsAlternate ==
    [][CoordinatorStep =>
          /\ last_player = None => node' = "player_one_node"
          /\ (last_player # None /\ Legal(board, moves)) =>
                /\ last_player = (IF CountOf(board, "O") = CountOf(board, "X")
                                  THEN "O" ELSE "X")
                /\ board'[moves[1]][moves[2]] = last_player
                /\ (CompletedLines(board') = {} /\ HasEmptyCell(board')) =>
                       node' = PlayerNode(OtherPlayer(last_player))]_vars

\* C4 witness: after two moves of each player, accepted in turn, the automated
\* player is asked again.
C4_Witness ==
    /\ lpc = "graph"
    /\ node = "player_one_node"
    /\ last_player = "X"
    /\ CountOf(board, "O") = 2
    /\ CountOf(board, "X") = 2
    /\ illegal_streak = 0

(***************************************************************************)
(* C5                                                                      *)
(***************************************************************************)

\* The name the session's status gives the owner of a mark.
OwnerOf(m) == IF m = "O" THEN get_selected_model ELSE "human"

\* C5: a legal move puts the mover's mark on its cell and the session's outcome
\* is check_winner of the resulting board: a mark ends the graph with that
\* mark's owner as winner, DRAW ends it as a draw, None names a player node and
\* leaves the status unset. Once the graph has ended its board and its node no
\* longer change.
C5_OutcomeFollowsCheckWinner ==
    [][/\ (Validating /\ CoordinatorStep /\ Legal(board, moves)) =>
              /\ board' = [board EXCEPT ![moves[1]][moves[2]] = last_player]
              /\ check_winner(board') \in Marks =>
                     /\ node' = "END"
                     /\ game_status' = "WINNER " \o OwnerOf(check_winner(board'))
                     /\ game_over'
              /\ check_winner(board') = "DRAW" =>
                     (node' = "END" /\ game_status' = "DRAW." /\ game_over')
              /\ check_winner(board') = None =>
                     /\ node' \in {"player_one_node", "player_two_node"}
                     /\ game_status' = None
                     /\ ~game_over'
       /\ node = "END" => (node' = "END" /\ board' = board /\ moves' = moves)]_vars

\* C5 witness: the human has completed a line and the session has ended as won
\* by the human.
C5_Witness ==
    /\ node = "END"
    /\ game_status = "WINNER human"
    /\ \E l \in CompletedLines(board) : MarkOn(board, l) = "X"
    /\ lpc = "restart_wait"

(***************************************************************************)
(* C6                                                                      *)
(***************************************************************************)

\* C6: on a board with exactly one completed line check_winner returns the mark
\* on that line, whether or not the board is full.
C6_SingleLineWins ==
    (fn_call = "check_winner" /\ Cardinality(CompletedLines(fn_board)) = 1) =>
        \A l \in CompletedLines(fn_board) : fn_winner = MarkOn(fn_board, l)

\* C6 witness: check_winner has returned the mark of the only completed line, a
\* diagonal, of a full board.
C6_Witness ==
    /\ fn_call = "check_winner"
    /\ CompletedLines(fn_board) = {{<<k, N - 1 - k>> : k \in Idx}}
    /\ ~HasEmptyCell(fn_board)
    /\ fn_winner = "X"

(***************************************************************************)
(* C7                                                                      *)
(***************************************************************************)

\* C7: on a board with no completed line check_winner returns 'DRAW' when no
\* cell is empty and None when one is.
C7_NoLineDrawOrNone ==
    (fn_call = "check_winner" /\ CompletedLines(fn_board) = {}) =>
        fn_winner = (IF HasEmptyCell(fn_board) THEN None ELSE "DRAW")

\* C7 witness: check_winner has returned DRAW on a full board without a line.
C7_Witness ==
    /\ fn_call = "check_winner"
    /\ CompletedLines(fn_board) = {}
    /\ ~HasEmptyCell(fn_board)
    /\ fn_winner = "DRAW"

(***************************************************************************)
(* C8                                                                      *)
(***************************************************************************)

\* C8: valid_move(board, i, j) is true exactly when 0 <= i < 3, 0 <= j < 3 and
\* board[i][j] is '.', for every board and every pair of integers, and the call
\* leaves the board as it was.
C8_ValidMoveIff ==
    [][fn_call' = "valid_move" =>
          /\ fn_valid' = (/\ fn_args'[1] \in 0 .. 2
                          /\ fn_args'[2] \in 0 .. 2
                          /\ fn_board[fn_args'[1]][fn_args'[2]] = ".")
          /\ fn_board' = fn_board]_vars

\* C8 witness: valid_move has rejected a negative row whose wrapped cell is empty,
\* on a board with marks.
C8_Witness ==
    /\ fn_call = "valid_move"
    /\ fn_args[1] < 0
    /\ fn_args[2] \in Idx
    /\ fn_board[N - 1][fn_args[2]] = "."
    /\ MarksOn(fn_board) >= 3
    /\ ~fn_valid

(***************************************************************************)
(* C9                                                                      *)
(***************************************************************************)

\* C9: within a session (every step but the one that starts a session on a
\* fresh State) a cell of the coordinator's board that is not '.' keeps its mark.
C9_MarksStay ==
    [][(lpc # "loop") =>
          \A cell \in Cells :
              board[cell[1]][cell[2]] # "." =>
                  board'[cell[1]][cell[2]] = board[cell[1]][cell[2]]]_vars

\* C9 witness: on a board with six marks the automated player has made two
\* illegal attempts in a row.
C9_Witness ==
    /\ MarksOn(board) = 6
    /\ illegal_streak = 2
    /\ last_player = "O"
    /\ node = "player_one_node"

(***************************************************************************)
(* C10                                                                     *)
(***************************************************************************)

\* C10: at most one accepted click is pending, and only while a call of
\* wait_for_human_move is waiting for it; when the call takes its move it takes
\* that click; a click is accepted only when none is pending, and a pending
\* click leaves only by being returned as the move of 'X'.
C10_OneMovePerCall ==
    /\ [](/\ Len(accepted) <= 1
          /\ accepted # <<>> => (/\ lpc \in {"move_ready_wait", "take_move"}
                                 /\ human_move = accepted[1]
                                 /\ ~human_turn)
          /\ lpc = "take_move" => (human_move # NoMove /\ accepted = <<human_move>>))
    /\ [][\/ accepted' = accepted
          \/ /\ accepted = <<>>
             /\ lpc = "move_ready_wait"
             /\ human_turn
             /\ accepted' = <<click>>
          \/ /\ lpc = "take_move"
             /\ accepted' = <<>>
             /\ moves' = accepted[1]
             /\ last_player' = "X"
             /\ node' = "coordinator_node"]_vars

\* C10 witness: the second human move of a session, a freely chosen cell, has
\* been returned to player_two_node and no click is pending.
C10_Witness ==
    /\ lpc = "graph"
    /\ node = "coordinator_node"
    /\ last_player = "X"
    /\ CountOf(board, "X") = 2
    /\ moves \in Cells
    /\ ui_board[moves[1]][moves[2]] = "X"
    /\ board[moves[1]][moves[2]] = "."
    /\ accepted = <<>>
    /\ human_move = NoMove

(***************************************************************************)
(* C11                                                                     *)
(***************************************************************************)

\* The step is a board click that the click handler ignores.
IgnoredClickStep == ~ignored /\ ignored'

\* C11: once a click has been accepted in a human turn and until its move is
\* returned, the UI board is the coordinator's board with 'X' on the accepted
\* cell only, human_move is that cell, no other click goes on to be recorded,
\* and a click the handler ignores leaves the UI board, human_move, the gate and
\* move_ready as they are.
C11_SecondClickRejected ==
    /\ [](accepted # <<>> =>
             /\ ui_board = [board EXCEPT ![accepted[1][1]][accepted[1][2]] = "X"]
             /\ board[accepted[1][1]][accepted[1][2]] = "."
             /\ human_move = accepted[1]
             /\ ~human_turn)
    /\ [][accepted # <<>> =>
             /\ upc' # "click_record"
             /\ IgnoredClickStep =>
                    UNCHANGED <<ui_board, human_move, human_turn, move_ready,
                                accepted>>]_vars

\* C11 witness: in a human turn with at least two empty cells a click has been
\* accepted, its move is still pending, and a later click has been ignored.
C11_Witness ==
    /\ accepted # <<>>
    /\ ignored
    /\ upc = "events"
    /\ lpc = "move_ready_wait"
    /\ move_ready
    /\ HasEmptyCell(ui_board)
    /\ CountOf(ui_board, "X") = CountOf(board, "X") + 1

(***************************************************************************)
(* C12                                                                     *)
(***************************************************************************)

\* C12: a click goes on to be recorded only when the gate is open and its cell
\* is empty on the UI board; a click the handler ignores (the gate is closed
\* or the board has a mark) changes no field of the program and leaves the UI
\* thread in its event loop.
C12_ClosedGateClickIsNoOp ==
    [][/\ (upc = "events" /\ upc' = "click_record") =>
              (human_turn /\ ui_board[click'[1]][click'[2]] = ".")
       /\ IgnoredClickStep =>
              /\ UNCHANGED <<state_vars, logic_vars, ui_vars, ui_thread_vars>>
              /\ upc = "events"
              /\ ~human_turn \/ MarksOn(ui_board) > 0]_vars

\* C12 witness: while the automated player is asked for its move, the gate being
\* closed, a click on the board has been ignored.
C12_Witness ==
    /\ ignored
    /\ ~human_turn
    /\ lpc = "graph"
    /\ node = "player_one_node"
    /\ ~game_over
    /\ accepted = <<>>
    /\ MarksOn(ui_board) >= 2
    /\ human_move = NoMove
    /\ upc = "events"

(***************************************************************************)
(* C13                                                                     *)
(***************************************************************************)

\* The step is one of the logic thread (each of them moves lpc or node).
LogicStep == lpc' # lpc \/ node' # node

\* C13: between the check of a click and its write the UI thread holds the
\* shared lock, the check and the write being one critical section.
C13_CheckAndWriteOneSection ==
    upc = "click_record" => LockHolder(upc) = "ui"

\* What holds instead of C13: no locked block covers the test between the check
\* and the write, and the logic thread takes no step there only because it is
\* blocked in move_ready.wait(); what the check has read is still true at the
\* write.
C13_LogicBlockedBetween ==
    /\ [](upc = "click_record" =>
             /\ lpc = "move_ready_wait"
             /\ ~move_ready
             /\ human_turn
             /\ ui_board[click[1]][click[2]] = ".")
    /\ [][upc = "click_record" => ~LogicStep]_vars

(***************************************************************************)
(* C14                                                                     *)
(***************************************************************************)

\* C14: the gate is open only while wait_for_human_move, called by
\* player_two_node, is blocked waiting for a move that has not been given yet,
\* in a session that has not ended; and a click is being recorded only then.
C14_GateOpenOnlyInHumanTurn ==
    /\ human_turn =>
          /\ lpc = "move_ready_wait"
          /\ node = "player_two_node"
          /\ last_player = "O"
          /\ ~move_ready
          /\ human_move = NoMove
          /\ accepted = <<>>
          /\ ~game_over
          /\ game_status = None
    /\ upc = "click_record" => human_turn

\* C14 witness: the gate is open for the human's third move of a session.
C14_Witness ==
    /\ human_turn
    /\ lpc = "move_ready_wait"
    /\ CountOf(board, "O") = 3
    /\ CountOf(board, "X") = 2
    /\ ui_board = board
    /\ upc = "events"

(***************************************************************************)
(* C15                                                                     *)
(***************************************************************************)

\* C15: once the shutdown signal is raised the logic thread eventually exits,
\* in particular when it is blocked in wait_for_human_move at that moment.
C15_ShutdownStopsLogic == shutdown_event ~> (lpc = "exited")

\* C15 in the form of a final state: when the shutdown signal is raised and no
\* thread can take a step any more, the logic thread has exited.
C15_StoppedMeansExited == (shutdown_event /\ ~ENABLED Next) => lpc = "exited"

(***************************************************************************)
(* C16                                                                     *)
(***************************************************************************)

\* C16: when the restart signal and the shutdown signal are both raised at the
\* moment run_async_in_thread decides what follows a finished session, it stops:
\* it does not go on to reset_game.
C16_ShutdownBeatsRestart ==
    [][(lpc = "restart_check" /\ restart_event /\ shutdown_event) =>
          lpc' # "reset_game"]_vars

(***************************************************************************)
(* C17                                                                     *)
(***************************************************************************)

\* coordinator_node is about to make the first request of a session.
SessionStart == lpc = "graph" /\ node = "coordinator_node" /\ last_player = None

\* C17: from the end of reset_game to the first request of the next session the
\* UI board is empty, the UI is not in game-over state, its status is empty, the
\* gate is closed, no human move is pending and board clicks are handled again;
\* the restart signal is clear as long as the window is open; and when the
\* coordinator is about to make its first request its board is empty and
\* invalid_move_count is 0.
C17_RestartResets ==
    /\ (lpc \in {"restart_clear", "loop"} \/ SessionStart) =>
          /\ ui_board = EmptyBoard
          /\ ~game_over
          /\ ui_game_status = ""
          /\ ~human_turn
          /\ human_move = NoMove
          /\ accepted = <<>>
          /\ upc \notin {"click_record", "click_set"}
          /\ running => ~restart_event
    /\ SessionStart =>
          /\ board = EmptyBoard
          /\ invalid_move_count = 0
          /\ game_status = None
          /\ moves = NoMove

\* C17 witness: after a session the human has won and a restart, the coordinator
\* is about to make the first request of the next session.
C17_Witness ==
    /\ SessionStart
    /\ score.Human = 1
    /\ move_ready
    /\ running
    /\ model_selection_enabled = FALSE

(***************************************************************************)
(* C18                                                                     *)
(***************************************************************************)

C19_TerminalSnapshotPublished ==
    lpc = "restart_wait" => (game_over /\ ui_game_status # "")

(***************************************************************************)
(* C20                                                                     *)
(***************************************************************************)

\* C20: while the automated player is asked for a move the session's state
\* changes in two ways only: an answer that parses is handed to
\* coordinator_node, or the session ends at once (the logic thread exits) with
\* the board, the UI board and invalid_move_count unchanged, whatever the
\* counter is; and once the logic thread has exited no player is asked again.
C20_UnparsableEndsSession ==
    [][/\ (lpc = "graph" /\ node = "player_one_node") =>
              \/ /\ lpc' = "exited"
                 /\ UNCHANGED <<state_vars, node, ui_board, illegal_streak>>
              \/ /\ lpc' = "graph"
                 /\ node' = "coordinator_node"
                 /\ moves' \in AIAnswers
                 /\ UNCHANGED <<board, ui_board, invalid_move_count, game_status>>
              \/ UNCHANGED <<state_vars, node, lpc>>
       /\ lpc = "exited" => UNCHANGED <<state_vars, node, lpc, ui_board>>]_vars

\* C20 witness: the automated player, asked a third time after two illegal
\* moves, has given an answer that does not parse; the session has ended with
\* the counter still at 2 and the window open.
C20_Witness ==
    /\ lpc = "exited"
    /\ node = "player_one_node"
    /\ invalid_move_count = 2
    /\ illegal_streak = 2
    /\ MarksOn(board) >= 4
    /\ ui_board = board
    /\ game_status = None
    /\ running
    /\ shutdown_event
    /\ ~continue_running

(***************************************************************************)
(* C21                                                                     *)
(***************************************************************************)

\* C21: a failure of the automated player's call ends the session only: while
\* the window is open the logic thread has not exited, and when it has left the
\* graph after a request to the automated player the UI is in game-over state
\* with a status string.
C21_AdapterFailureEndsSessionOnly ==
    /\ lpc = "exited" => ~running
    /\ (lpc # "graph" /\ node = "player_one_node") =>
          (game_over /\ ui_game_status # "")

(***************************************************************************)
(* C22                                                                     *)
(***************************************************************************)

\* The UI thread is in its event loop, between two steps of a handler or waiting
\* for the lock.
UIBusy == upc \in {"lock_wait", "click_record", "click_set", "restart_set"}

\* C22: whatever the logic thread does, a UI thread that waits for the lock or is
\* inside a handler comes back to the head of its event loop; at the head of the
\* loop a close request can be processed; and processing it clears running,
\* sets the shutdown signal and leaves the loop.
C22_UILoopNeverBlocked ==
    /\ UIBusy ~> (upc = "events")
    /\ [](upc = "events" => ENABLED EventQuit)
    /\ [][(upc = "events" /\ running /\ ~running') =>
              (shutdown_event' /\ upc' = "finally")]_vars

\* C22 witness: the UI thread waits for the lock while the logic thread is inside
\* the first block of wait_for_human_move.
C22_Witness ==
    /\ upc = "lock_wait"
    /\ lock = "logic"
    /\ lpc = "open_locked"

(***************************************************************************)
(* C24                                                                     *)
(***************************************************************************)

\* The logic thread is at one of its blocking calls: the request to the
\* automated player, move_ready.wait() or restart_event.wait().
LogicBlocked ==
    \/ lpc = "graph" /\ node = "player_one_node"
    \/ lpc = "move_ready_wait"
    \/ lpc = "restart_wait"

C23_ScoreMethods ==
    [][/\ (fn_call' = "update_score" /\ fn_args' = <<"AI">>) =>
              score' = [AI |-> score.AI + 1, Human |-> score.Human]
       /\ (fn_call' = "update_score" /\ fn_args' = <<"Human">>) =>
              score' = [AI |-> score.AI, Human |-> score.Human + 1]
       /\ (fn_call' = "update_score" /\ fn_args'[1] \notin {"AI", "Human"}) =>
              score' = score
       /\ fn_call' = "reset_score" => score' = [AI |-> 0, Human |-> 0]
       /\ fn_call' = "get_score" => (fn_returned' = <<score>> /\ score' = score)
       /\ fn_call' = "modify" => score' = score]_vars

\* C23 witness: after one win of each side a caller has changed the dictionary
\* it got from get_score, and the stored score still holds one win each.
C23_Witness ==
    /\ fn_call = "modify"
    /\ fn_returned = <<[AI |-> 0, Human |-> 3]>>
    /\ score = [AI |-> 1, Human |-> 1]

(***************************************************************************)
(* C25                                                                     *)
(***************************************************************************)

\* C25 as claimed: at most one of the eight lines is complete on the
\* coordinator's board.
C25_AtMostOneLine == Cardinality(CompletedLines(board)) <= 1

\* C25, amended: at most two lines are complete on the coordinator's board; all
\* completed lines carry one mark; and two lines are complete only on a full
\* board, both with 'O' (the fifth mark of the first mover) and both through the
\* cell of the last move.
C25_LinesShareLastMove ==
    /\ Cardinality(CompletedLines(board)) <= 2
    /\ \A l1 \in CompletedLines(board), l2 \in CompletedLines(board) :
          /\ MarkOn(board, l1) = MarkOn(board, l2)
          /\ l1 # l2 =>
                /\ moves \in l1 \cap l2
                /\ MarkOn(board, l1) = "O"
                /\ ~HasEmptyCell(board)
                /\ game_status # None

\* C25 witness: the last free cell, a corner, completes a row and a column of
\* 'O' at once and the session has ended.
C25_Witness ==
    /\ Cardinality(CompletedLines(board)) = 2
    /\ moves = <<0, 0>>
    /\ node = "END"

(***************************************************************************)
(* C26                                                                     *)
(***************************************************************************)

\* A restart requested while run_async_in_thread waits after a session leads to
\* the first request of a new session, unless shutdown is requested.
RestartLeadsToSession ==
    (lpc = "restart_wait" /\ restart_event) ~> (SessionStart \/ shutdown_event)

\* C26: after every finished session (won, draw or aborted), while the logic
\* thread waits and the window is open, the user can request a restart; and a
\* restart requested leads to the first request of a new session unless
\* shutdown is requested.
C26_RestartAfterEverySession ==
    /\ [](/\ lpc = "restart_wait"
          /\ upc = "events"
          /\ running
          /\ score.AI + score.Human < MaxWins
          => ENABLED ClickRestart)
    /\ RestartLeadsToSession

(***************************************************************************)
(* C27                                                                     *)
(***************************************************************************)

\* A session is running: the graph has not reached END.
InSession ==
    /\ lpc \in {"graph", "open_locked", "move_ready_wait", "take_move"}
    /\ node # "END"

\* The session has ended and no restart has been made yet.
SessionEnded == (lpc = "graph" /\ node = "END") \/ lpc = "restart_wait"

\* C27: model selection is disabled while a session is running and enabled once
\* the session has ended, whether by a win, a draw or an abort, before any
\* restart.
C27_SelectionFollowsSession ==
    /\ InSession => ~model_selection_enabled
    /\ SessionEnded => model_selection_enabled

(***************************************************************************)
(* C28                                                                     *)
(***************************************************************************)

\* The step completes a line on the coordinator's board: a session is won.
SessionWon == CompletedLines(board) = {} /\ CompletedLines(board') # {}

\* C28: the score changes in exactly the steps that win a session, which are
\* steps of coordinator_node ending the session; such a step adds one to Human
\* and leaves AI when the line is of 'X', adds one to AI and leaves Human when
\* it is of 'O'. Draws, aborts, illegal attempts and restarts leave the score.
C28_ScoreCountsWins ==
    [][(score' # score \/ board' # board) =>
          /\ (score' # score) = SessionWon
          /\ SessionWon =>
                /\ CoordinatorStep
                /\ node' = "END"
                /\ \A l \in CompletedLines(board') :
                      score' = IF MarkOn(board', l) = "X"
                               THEN [AI |-> score.AI, Human |-> score.Human + 1]
                               ELSE [AI |-> score.AI + 1, Human |-> score.Human]]_vars

\* C28 witness: a second session has been won after a restart; each side has
\* won one, and the last one went to the human.
C28_Witness ==
    /\ score = [AI |-> 1, Human |-> 1]
    /\ lpc = "graph"
    /\ node = "END"
    /\ \E l \in CompletedLines(board) : MarkOn(board, l) = "X"

(***************************************************************************)
(* C29                                                                     *)
(***************************************************************************)

\* C29: when coordinator_node is about to validate a move of the human, the move
\* is legal on the coordinator's board; and whenever the human is the one asked,
\* no illegal attempt precedes the request and invalid_move_count is 0.
C29_HumanMovesLegal ==
    /\ (Validating /\ last_player = "X") => Legal(board, moves)
    /\ node = "player_two_node" =>
          /\ illegal_streak = 0
          /\ invalid_move_count = 0

\* C29 witness: coordinator_node is about to validate the human's third move,
\* which completes a line of 'X' cells.
C29_Witness ==
    /\ Validating
    /\ last_player = "X"
    /\ CountOf(board, "X") = 2
    /\ CompletedLines(SetCell(board, moves[1], moves[2], "X")) # {}

(***************************************************************************)
(* C30                                                                     *)
(***************************************************************************)

\* C30: while a session is running and the window is open the restart signal is
\* not set: Restart is clicked in game-over state only, so a signal set during a
\* session would stem from a click made before the session started and would
\* restart the game as soon as the session ends.
C30_RestartConsumedOnce == (InSession /\ running) => ~restart_event

(***************************************************************************)
(* C31                                                                     *)
(***************************************************************************)

\* C31: every completed line on the coordinator's board carries the mark of the
\* player whose move was accepted last, and that mark is what check_winner
\* returns, whichever completed line is looked at first.
C31_LinesOfLastMover ==
    \A l \in CompletedLines(board) :
        /\ MarkOn(board, l) = last_player
        /\ MarkOn(board, l) = board[moves[1]][moves[2]]
        /\ check_winner(board) = MarkOn(board, l)

\* C31 witness: the session has ended on a completed anti-diagonal of 'X', the
\* line check_winner looks at last.
C31_Witness ==
    /\ node = "END"
    /\ last_player = "X"
    /\ CompletedLines(board) = {{<<k, N - 1 - k>> : k \in Idx}}

(***************************************************************************)
(* C32                                                                     *)
(***************************************************************************)

\* The player the next accepted move of the running session belongs to: the
\* first mover when no move has been made, the player being asked, or the player
\* whose move coordinator_node is about to validate (a rejected move is retried
\* by the same player).
NextMover ==
    IF node = "player_one_node" THEN "O"
    ELSE IF node = "player_two_node" THEN "X"
    ELSE IF last_player = None THEN "O"
    ELSE last_player

\* C32: on the coordinator's board the number of 'O' marks minus the number of
\* 'X' marks is 0 or 1, and while a session is running it is 0 exactly when the
\* next accepted move belongs to 'O'.
C32_MarkBalance ==
    /\ CountOf(board, "O") - CountOf(board, "X") \in {0, 1}
    /\ InSession =>
          ((CountOf(board, "O") = CountOf(board, "X")) <=> (NextMover = "O"))

\* C32 witness: coordinator_node is about to validate a move of 'X' on a board
\* with three 'O' and two 'X'.
C32_Witness ==
    /\ Validating
    /\ last_player = "X"
    /\ CountOf(board, "O") = 3
    /\ CountOf(board, "X") = 2

(***************************************************************************)
(* C33                                                                     *)
(***************************************************************************)

DiffCells == {cell \in Cells : ui_board[cell[1]][cell[2]] # board[cell[1]][cell[2]]}

\* The human's move on its way to coordinator_node: stored by the click handler
\* and not yet taken, or returned by player_two_node and not yet validated.
PendingHumanMove ==
    IF human_move # NoMove THEN human_move
    ELSE IF Validating /\ last_player = "X" THEN moves
    ELSE NoMove

\* C34: while the gate is open the UI's board equals the coordinator's board; at
\* any moment of a session they differ in at most one cell, and then that cell
\* holds 'X' on the UI's board, is empty on the coordinator's board and is the
\* cell of the human move coordinator_node validates next.
C34_BoardsAgree ==
    /\ human_turn => ui_board = board
    /\ InSession =>
          /\ Cardinality(DiffCells) <= 1
          /\ \A cell \in DiffCells :
                /\ ui_board[cell[1]][cell[2]] = "X"
                /\ board[cell[1]][cell[2]] = "."
                /\ PendingHumanMove = cell

\* C34 witness: the handler has written the human's second 'X' into the UI's
\* board and closed the gate; the coordinator's board does not hold it yet.
C34_Witness ==
    /\ InSession
    /\ Cardinality(DiffCells) = 1
    /\ CountOf(ui_board, "X") = 2
    /\ upc = "click_set"


====
